---- MODULE Spec2Model ----
(***************************************************************************)
(* Model of the ID3v2.4 tag codec of earacena/alloy: the synchsafe integer *)
(* codec (utility.rs), the tag locator and picture scanner (extract.rs),   *)
(* the header/frame decoder (parse.rs) and the tag model, its setters and  *)
(* its serializer (tag.rs).  main.rs holds an older single-file copy of the *)
(* same functions; where the two differ the model follows the modules.     *)
(*                                                                         *)
(* Bytes are naturals 0..255, byte strings are sequences of bytes.  Rust   *)
(* indexes from 0, TLA+ from 1: At and Slice do the translation.           *)
(* Option<T> is a sequence of length 0 (None) or 1 (Some).                 *)
(*                                                                         *)
(* A u32 is stored by its 32-bit pattern read as two's complement (TLC's   *)
(* integers are 32 bits wide): the u32 value x is stored as x when         *)
(* x < 2^31 and as x - 2^32 otherwise.  Only the tag header's running size *)
(* can reach the upper half, after a wrapped subtraction.                  *)
(*                                                                         *)
(* A panic (index out of range, unwrap of an Err, failed assert!, checked  *)
(* arithmetic overflow) ends the program: the result is Panic and no       *)
(* further operation runs.  Whether u32 overflow panics or wraps depends   *)
(* on the build profile, which overflow_checks records.                    *)
(***************************************************************************)
EXTENDS Integers, Sequences, FiniteSets, TLC

VARIABLES
    input,            \* the tag bytes handed to parse_tag
    status,           \* outcome of the last operation: "Ok", "Err" or "Panic"
    tag,              \* the Id3v2Tag the caller owns (NoTag when none)
    before,           \* the tag as it was before the last setter call
    lastCall,         \* the last setter call: [op, id, text, picture]
    beforePrev,       \* the tag as it was before the call before the last
    prevCall,         \* the setter call before the last
    ncalls,           \* number of setter calls made
    overflow_checks,  \* build profile: TRUE = arithmetic overflow panics
    output,           \* Some(bytes) once into_bytes has run, else None
    reparsed,         \* Some(parse_tag result) of the serialized bytes
    value,            \* codec: the u32 to encode
    encoded,          \* codec: Some(four bytes)
    decoded,          \* codec: Some(u32)
    file,             \* locator: the bytes of the whole file
    located,          \* locator: Some(extract_tag result) once it has run
    pic,              \* picture: Some(Picture) to serialize, else None
    payload,          \* picture: Some(payload bytes of an APIC frame)
    scan,             \* picture: the locals of the loop of extract_picture
    pos,              \* picture: number of payload bytes the loop has read
    extracted,        \* picture: Some(extract_picture result)
    frame_bytes,      \* frame scan: the bytes of the frame region
    frame_idx,        \* frame scan: idx, the offset of the loop of parse_frames
    frames_found,     \* frame scan: the frames pushed so far
    loop              \* frame scan: "idle", "running", "done" (the frames
                      \* are returned), "warned" (returned after the
                      \* misshaped-frame warning) or "panic"

locatorVars == <<file, located>>

pictureVars == <<pic, payload, scan, pos, extracted>>

frameScanVars == <<frame_bytes, frame_idx, frames_found, loop>>

vars == <<input, status, tag, before, lastCall, beforePrev, prevCall, ncalls,
          overflow_checks, output, reparsed, value, encoded, decoded,
          locatorVars, pictureVars, frameScanVars>>

(***************************************************************************)
(* Bytes, slices, bit operations                                           *)
(***************************************************************************)
At(bytes, i) == bytes[i + 1]

Slice(bytes, s, e) == SubSeq(bytes, s + 1, e)

InRange(bytes, i) == i >= 0 /\ i < Len(bytes)

RECURSIVE BitOr(_, _)
BitOr(a, b) ==
    IF a = 0 THEN b
    ELSE IF b = 0 THEN a
    ELSE (IF a % 2 = 1 \/ b % 2 = 1 THEN 1 ELSE 0)
         + 2 * BitOr(a \div 2, b \div 2)

\* flags & mask != 0 for a single-bit mask
BitSet(flags, mask) == (flags \div mask) % 2 = 1

\* String::from_utf8 succeeds on ASCII; the inputs here use ASCII bytes and
\* 0xFF, which is never part of a valid UTF-8 sequence.
Utf8Valid(bytes) == \A i \in 1..Len(bytes) : bytes[i] < 128

(***************************************************************************)
(* utility.rs                                                              *)
(***************************************************************************)
convert_safesynch_to_u32(byte0, byte1, byte2, byte3) ==
    BitOr(BitOr(BitOr(byte0 * 2097152, byte1 * 16384), byte2 * 128), byte3)

convert_u32_to_safesynch_wrongshift(v) ==
    << (v \div 1048576) % 128,
       (v \div 16384) % 128,
       (v \div 128) % 128,
       v % 128 >>

\* (value & mask) >> k keeps bits k..k+6; on the stored two's complement
\* pattern floor division and modulus select the same bits.
convert_u32_to_safesynch(v) ==
    << (v \div 2097152) % 128,
       (v \div 16384) % 128,
       (v \div 128) % 128,
       v % 128 >>

\* The five-byte form holds 35 bits; the extended-header CRC bytes used here
\* keep byte0 < 8 so that the value stays below 2^31.
convert_safesynch_to_u64(byte0, byte1, byte2, byte3, byte4) ==
    BitOr(BitOr(BitOr(BitOr(byte0 * 268435456, byte1 * 2097152),
                      byte2 * 16384), byte3 * 128), byte4)

convert_u64_to_safesynch(v) ==
    << (v \div 268435456) % 128,
       (v \div 2097152) % 128,
       (v \div 16384) % 128,
       (v \div 128) % 128,
       v % 128 >>

(***************************************************************************)
(* u32 arithmetic of the running header size (tag.rs 239, 244, 249, 279)   *)
(***************************************************************************)
\* x -= n with 0 <= n < 2^31: underflows iff the stored value is in the lower
\* half and smaller than n.
U32SubOverflows(x, n) == x >= 0 /\ x < n

\* x += n with 0 <= n < 2^31: overflows iff the stored value is in the upper
\* half and the sum leaves it.
U32AddOverflows(x, n) == x < 0 /\ x + n >= 0

(***************************************************************************)
(* Results of operations that can fail                                     *)
(***************************************************************************)
Ok(v) == [status |-> "Ok", val |-> v]

Panic == [status |-> "Panic", val |-> <<>>]

Err == [status |-> "Err", val |-> <<>>]

None == <<>>

Some(v) == <<v>>

(***************************************************************************)
(* tag.rs: serialization of the model                                      *)
(***************************************************************************)
RECURSIVE Concat(_)
Concat(seqs) ==
    IF seqs = <<>> THEN <<>> ELSE Head(seqs) \o Concat(Tail(seqs))

Id3v2Header_into_bytes(h) ==
    Concat(<< h.identifier, h.version, <<h.flags>>,
              convert_u32_to_safesynch(h.size) >>)

Id3v2ExtendedHeader_into_bytes(e) ==
    Concat(<< convert_u32_to_safesynch(e.size),
              <<e.number_of_flag_bytes>>,
              <<e.flags>>,
              <<e.b_flag_length>>,
              <<e.c_flag_length>>,
              IF e.total_frame_crc = None THEN <<>>
              ELSE convert_u64_to_safesynch(e.total_frame_crc[1]),
              <<e.d_flag_length>>,
              e.restrictions >>)

Id3v2FrameHeader_into_bytes(h) ==
    Concat(<< h.identifier, convert_u32_to_safesynch(h.size), h.flags >>)

TextInformation_into_bytes(info) == <<info.encoding>> \o info.data

Id3v2TextFrame_into_bytes(f) ==
    Id3v2FrameHeader_into_bytes(f.header) \o TextInformation_into_bytes(f.info)

\* tag.rs 168-180: the MIME string and the description are emitted as they
\* are, without a 0x00 after either.
Picture_into_bytes(p) ==
    Concat(<< <<p.encoding>>, p.mime, <<p.picture_type>>,
              p.description, p.data >>)

Picture_size(p) == Len(Picture_into_bytes(p))

Id3v2PictureFrame_into_bytes(f) ==
    Id3v2FrameHeader_into_bytes(f.header) \o Picture_into_bytes(f.picture)

Frame_into_bytes(f) ==
    IF f.kind = "Text" THEN Id3v2TextFrame_into_bytes(f)
    ELSE Id3v2PictureFrame_into_bytes(f)

RECURSIVE frames_into_bytes(_)
frames_into_bytes(frames) ==
    IF frames = <<>> THEN <<>>
    ELSE Frame_into_bytes(Head(frames)) \o frames_into_bytes(Tail(frames))

PatchSize_shifted(result, size_bytes) ==
    [i \in 1..Len(result) |->
        IF i \in 6..9 THEN size_bytes[i - 5] ELSE result[i]]

\* tag.rs 391-394: result[6..=9] take the four size bytes
PatchSize(result, size_bytes) ==
    [i \in 1..Len(result) |->
        IF i \in 7..10 THEN size_bytes[i - 6] ELSE result[i]]

into_bytes_unpatched(t) ==
    Concat(<< Id3v2Header_into_bytes(t.header),
              IF t.extended_header = None THEN <<>>
              ELSE Id3v2ExtendedHeader_into_bytes(t.extended_header[1]),
              frames_into_bytes(t.frames),
              IF t.footer = None THEN <<>>
              ELSE Id3v2Header_into_bytes(t.footer[1]) >>)

\* tag.rs 351-401.  total_size starts at -10, loses 10 more for a footer and
\* gains the length of the concatenation; it is never negative because the
\* header and the footer are 10 bytes each, so both try_from succeed.
into_bytes(t) ==
    LET result == Concat(<< Id3v2Header_into_bytes(t.header),
                            IF t.extended_header = None THEN <<>>
                            ELSE Id3v2ExtendedHeader_into_bytes(t.extended_header[1]),
                            frames_into_bytes(t.frames),
                            IF t.footer = None THEN <<>>
                            ELSE Id3v2Header_into_bytes(t.footer[1]) >>)
        total_size == (IF t.footer = None THEN -10 ELSE -20) + Len(result)
    IN  PatchSize(result, convert_u32_to_safesynch(total_size))

\* the for loop of tag.rs 338-343
RECURSIVE frames_size(_)
frames_size(frames) ==
    IF frames = <<>> THEN 0
    ELSE (Head(frames).header.size + 10) + frames_size(Tail(frames))

\* tag.rs 327-349.  The sum is formed in u32; the tags of the model are far
\* from 2^32 bytes.
get_size(t) ==
    10
    + (IF t.extended_header # None THEN t.extended_header[1].size + 10 ELSE 0)
    + frames_size(t.frames)
    + (IF t.footer # None THEN 10 ELSE 0)

(***************************************************************************)
(* extract.rs                                                              *)
(***************************************************************************)
ImagePng == <<105, 109, 97, 103, 101, 47, 112, 110, 103>>

ImageJpeg == <<105, 109, 97, 103, 101, 47, 106, 112, 101, 103>>

ImageUnknown == <<105, 109, 97, 103, 101, 47>>

\* extract.rs 68-72
MimeTypeOf(mime_bytes) ==
    IF mime_bytes = ImagePng THEN "Png"
    ELSE IF mime_bytes = ImageJpeg THEN "Jpeg"
    ELSE "Unknown"

\* extract.rs builds the Picture with a MimeType while tag.rs declares
\* Picture.mime as a String; the model holds the string MimeType::to_string
\* (main.rs 22-28) gives for it.
MimeType_to_string(m) ==
    IF m = "Jpeg" THEN ImageJpeg
    ELSE IF m = "Png" THEN ImagePng
    ELSE ImageUnknown

ScanStart ==
    [stage |-> "encoding", encoding_byte |-> 3, mime_bytes |-> <<>>,
     picture_type_byte |-> 3, description_bytes |-> <<>>, data_bytes |-> <<>>]

PictureStep_backtracking(st, byte) ==
    IF st.stage = "encoding" THEN
        [st EXCEPT !.encoding_byte = byte, !.stage = "mime"]
    ELSE IF st.stage = "mime" THEN
        IF byte = 0 THEN [st EXCEPT !.stage = "type"]
        ELSE [st EXCEPT !.mime_bytes = Append(@, byte)]
    ELSE IF st.stage = "type" THEN
        [st EXCEPT !.picture_type_byte = byte, !.stage = "description"]
    ELSE IF st.stage = "description" THEN
        IF byte = 0 THEN [st EXCEPT !.stage = "mime"]
        ELSE [st EXCEPT !.description_bytes = Append(@, byte)]
    ELSE [st EXCEPT !.data_bytes = Append(@, byte)]

\* one iteration of the loop of extract_picture
PictureStep(st, byte) ==
    IF st.stage = "encoding" THEN
        [st EXCEPT !.encoding_byte = byte, !.stage = "mime"]
    ELSE IF st.stage = "mime" THEN
        IF byte = 0 THEN [st EXCEPT !.stage = "type"]
        ELSE [st EXCEPT !.mime_bytes = Append(@, byte)]
    ELSE IF st.stage = "type" THEN
        [st EXCEPT !.picture_type_byte = byte, !.stage = "description"]
    ELSE IF st.stage = "description" THEN
        IF byte = 0 THEN [st EXCEPT !.stage = "data"]
        ELSE [st EXCEPT !.description_bytes = Append(@, byte)]
    ELSE [st EXCEPT !.data_bytes = Append(@, byte)]

RECURSIVE ScanPicture(_, _)
ScanPicture(st, bytes) ==
    IF bytes = <<>> THEN st
    ELSE ScanPicture(PictureStep(st, Head(bytes)), Tail(bytes))

extract_picture(bytes) ==
    LET st == ScanPicture(ScanStart, bytes)
    IN  IF ~Utf8Valid(st.mime_bytes) \/ ~Utf8Valid(st.description_bytes)
        THEN Panic
        ELSE Ok([encoding |-> st.encoding_byte,
                 mime |-> MimeType_to_string(MimeTypeOf(st.mime_bytes)),
                 picture_type |-> st.picture_type_byte,
                 description |-> st.description_bytes,
                 data |-> st.data_bytes])

extract_frame_skipping(idx, bytes) ==
    LET total_frame_size ==
            convert_safesynch_to_u32(At(bytes, idx + 4), At(bytes, idx + 5),
                                     At(bytes, idx + 6), At(bytes, idx + 7)) + 10
        end == idx + total_frame_size
    IN  IF end > Len(bytes) THEN Panic
        ELSE Ok([frame |-> Slice(bytes, idx, end), end |-> end + 1])

\* extract.rs 79-91; the caller guarantees idx + 11 <= len
extract_frame(idx, bytes) ==
    LET total_frame_size ==
            convert_safesynch_to_u32(At(bytes, idx + 4), At(bytes, idx + 5),
                                     At(bytes, idx + 6), At(bytes, idx + 7)) + 10
        end == idx + total_frame_size
    IN  IF end > Len(bytes) THEN Panic
        ELSE Ok([frame |-> Slice(bytes, idx, end), end |-> end])

\* extract.rs 4-24
extract_tag(bytes) ==
    IF Len(bytes) < 10 THEN Panic
    ELSE
    LET size == convert_safesynch_to_u32(At(bytes, 6), At(bytes, 7),
                                         At(bytes, 8), At(bytes, 9)) + 10
        is33 == InRange(bytes, size + 10) /\ At(bytes, size + 10) = 51
        is44 == InRange(bytes, size + 11) /\ At(bytes, size + 11) = 68
        is49 == InRange(bytes, size + 12) /\ At(bytes, size + 12) = 73
        oob  == \/ ~InRange(bytes, size + 10)
                \/ (is33 /\ ~InRange(bytes, size + 11))
                \/ (is33 /\ is44 /\ ~InRange(bytes, size + 12))
        total_tag_size == IF is33 /\ is44 /\ is49 THEN size + 10 ELSE size
    IN  IF oob THEN Panic
        ELSE IF total_tag_size + 1 > Len(bytes) THEN Panic
        ELSE Ok([tag_bytes |-> Slice(bytes, 0, total_tag_size),
                 remaining_bytes |->
                     Slice(bytes, total_tag_size + 1, Len(bytes))])

(***************************************************************************)
(* parse.rs                                                                *)
(***************************************************************************)
TIT2 == <<84, 73, 84, 50>>

TPE1 == <<84, 80, 69, 49>>

TALB == <<84, 65, 76, 66>>

TPE2 == <<84, 80, 69, 50>>

TSSE == <<84, 83, 83, 69>>

APIC == <<65, 80, 73, 67>>

\* parse.rs 123-141; the assertion needs exactly 10 bytes
parse_header(bytes) ==
    IF Len(bytes) # 10 THEN Panic
    ELSE Ok([identifier |-> <<At(bytes, 0), At(bytes, 1), At(bytes, 2)>>,
             version |-> <<At(bytes, 3), At(bytes, 4)>>,
             flags |-> At(bytes, 5),
             size |-> convert_safesynch_to_u32(At(bytes, 6), At(bytes, 7),
                                               At(bytes, 8), At(bytes, 9))])

\* parse.rs 68-121.  Indexing bytes[0..3] needs four bytes; the assertion
\* then compares the length of the slice with size + 10.  Both flag tests
\* use the mask 16 (0b0010000 and 0b00010000 are the same number).
parse_extended_header(bytes) ==
    IF Len(bytes) < 4 THEN Panic
    ELSE
    LET size == convert_safesynch_to_u32(At(bytes, 0), At(bytes, 1),
                                         At(bytes, 2), At(bytes, 3))
    IN  IF Len(bytes) # size + 10 THEN Panic
        ELSE
        LET flags == At(bytes, 5)
            crc == BitSet(flags, 16)
        IN  IF crc /\ Len(bytes) < 15 THEN Panic
            ELSE Ok([size |-> size,
                     number_of_flag_bytes |-> At(bytes, 4),
                     flags |-> flags,
                     b_flag_length |-> At(bytes, 6),
                     c_flag_length |-> At(bytes, 7),
                     total_frame_crc |->
                         IF crc
                         THEN Some(convert_safesynch_to_u64(
                                  At(bytes, 8), At(bytes, 9), At(bytes, 10),
                                  At(bytes, 11), At(bytes, 12)))
                         ELSE None,
                     d_flag_length |->
                         IF crc THEN At(bytes, 13) ELSE At(bytes, 8),
                     restrictions |->
                         IF BitSet(flags, 16)
                         THEN (IF crc THEN Some(At(bytes, 14))
                               ELSE Some(At(bytes, 9)))
                         ELSE None])

TextIds == {TIT2, TALB, TPE1, TPE2, TSSE}

\* parse.rs 143-182; bytes holds at least the 10-byte frame header
parse_frame(bytes) ==
    LET identifier == <<At(bytes, 0), At(bytes, 1), At(bytes, 2), At(bytes, 3)>>
        header == [identifier |-> identifier,
                   size |-> convert_safesynch_to_u32(
                                At(bytes, 4), At(bytes, 5),
                                At(bytes, 6), At(bytes, 7)),
                   flags |-> <<At(bytes, 8), At(bytes, 9)>>]
        data == Slice(bytes, 10, Len(bytes))
    IN  IF ~Utf8Valid(identifier) THEN Panic
        ELSE IF identifier \in TextIds THEN
            IF data = <<>> THEN Panic
            ELSE Ok([kind |-> "Text", header |-> header,
                     info |-> [encoding |-> At(data, 0),
                               data |-> Slice(data, 1, Len(data))]])
        ELSE IF identifier = APIC THEN
            LET extracted_picture == extract_picture(data)
            IN  IF extracted_picture.status # "Ok" THEN Panic
                ELSE Ok([kind |-> "Picture", header |-> header,
                         picture |-> extracted_picture.val])
        ELSE Err

Sentinel_never_stops(bytes, idx) == "go"

\* the padding test of parse.rs 193-196: "stop", "go", or "oob" when a zero
\* byte is followed by the end of the region
Sentinel(bytes, idx) ==
    IF At(bytes, idx) # 0 THEN "go"
    ELSE IF ~InRange(bytes, idx + 1) THEN "oob"
    ELSE IF At(bytes, idx + 1) # 0 THEN "go"
    ELSE IF ~InRange(bytes, idx + 2) THEN "oob"
    ELSE IF At(bytes, idx + 2) # 0 THEN "go"
    ELSE IF ~InRange(bytes, idx + 3) THEN "oob"
    ELSE IF At(bytes, idx + 3) # 0 THEN "go"
    ELSE "stop"

\* parse.rs 184-221, the loop from offset idx with the frames found so far
RECURSIVE parse_frames_from(_, _, _)
parse_frames_from(bytes, idx, frames) ==
    IF ~(idx < Len(bytes)) THEN Ok(frames)
    ELSE IF Sentinel(bytes, idx) = "stop" THEN Ok(frames)
    ELSE IF Sentinel(bytes, idx) = "oob" THEN Panic
    ELSE IF Len(bytes) - idx < 11 THEN
        IF Utf8Valid(Slice(bytes, idx, Len(bytes))) THEN Ok(frames) ELSE Panic
    ELSE
        LET ex == extract_frame(idx, bytes)
        IN  IF ex.status # "Ok" THEN Panic
            ELSE
            LET fr == parse_frame(ex.val.frame)
            IN  IF fr.status # "Ok" THEN Panic
                ELSE parse_frames_from(bytes, ex.val.end,
                                       Append(frames, fr.val))

parse_frames(bytes) == parse_frames_from(bytes, 0, <<>>)

\* parse.rs 31-33
footer_present(bytes) ==
    /\ At(bytes, Len(bytes) - 10) = 51
    /\ At(bytes, Len(bytes) - 9) = 68
    /\ At(bytes, Len(bytes) - 8) = 73

parse_tag_unchecked(bytes) ==
    IF Len(bytes) < 10 THEN Panic
    ELSE
    LET header == parse_header(Slice(bytes, 0, 10)).val
        has_ext == BitSet(header.flags, 64)
        ext_oob == Len(bytes) < 14
        total_extended_header_size ==
            convert_safesynch_to_u32(At(bytes, 10), At(bytes, 11),
                                     At(bytes, 12), At(bytes, 13))
        ext == IF ext_oob \/ total_extended_header_size + 10 > Len(bytes)
               THEN Panic
               ELSE parse_extended_header(
                        Slice(bytes, 10, total_extended_header_size + 10))
    IN  IF has_ext /\ ext.status # "Ok" THEN Panic
        ELSE
        LET extended_header == IF has_ext THEN Some(ext.val) ELSE None
            fp == footer_present(bytes)
            frames_start == IF has_ext THEN ext.val.size + 10 ELSE 10
            frames_end == IF fp THEN Len(bytes) - 10 ELSE Len(bytes)
        IN  IF frames_start > frames_end THEN Panic
            ELSE
            LET frames == parse_frames(Slice(bytes, frames_start, frames_end))
            IN  IF frames.status # "Ok" THEN Panic
                ELSE Ok([header |-> header,
                         extended_header |-> extended_header,
                         frames |-> frames.val,
                         footer |->
                             IF fp
                             THEN Some(parse_header(
                                      Slice(bytes, Len(bytes) - 10,
                                            Len(bytes))).val)
                             ELSE None])

\* parse.rs 5-66
parse_tag(bytes) ==
    IF Len(bytes) = 0 THEN Panic
    ELSE IF At(bytes, 0) # 73 THEN (IF Len(bytes) < 3 THEN Panic ELSE Err)
    ELSE IF Len(bytes) < 2 THEN Panic
    ELSE IF At(bytes, 1) # 68 THEN (IF Len(bytes) < 3 THEN Panic ELSE Err)
    ELSE IF Len(bytes) < 3 THEN Panic
    ELSE IF At(bytes, 2) # 51 THEN Err
    ELSE IF Len(bytes) < 10 THEN Panic
    ELSE
    LET header == parse_header(Slice(bytes, 0, 10)).val
        has_ext == BitSet(header.flags, 64)
        ext_oob == Len(bytes) < 14
        total_extended_header_size ==
            convert_safesynch_to_u32(At(bytes, 10), At(bytes, 11),
                                     At(bytes, 12), At(bytes, 13))
        ext == IF ext_oob \/ total_extended_header_size + 10 > Len(bytes)
               THEN Panic
               ELSE parse_extended_header(
                        Slice(bytes, 10, total_extended_header_size + 10))
    IN  IF has_ext /\ ext.status # "Ok" THEN Panic
        ELSE
        LET extended_header == IF has_ext THEN Some(ext.val) ELSE None
            fp == footer_present(bytes)
            frames_start == IF has_ext THEN ext.val.size + 10 ELSE 10
            frames_end == IF fp THEN Len(bytes) - 10 ELSE Len(bytes)
        IN  IF frames_start > frames_end THEN Panic
            ELSE
            LET frames == parse_frames(Slice(bytes, frames_start, frames_end))
            IN  IF frames.status # "Ok" THEN Panic
                ELSE Ok([header |-> header,
                         extended_header |-> extended_header,
                         frames |-> frames.val,
                         footer |->
                             IF fp
                             THEN Some(parse_header(
                                      Slice(bytes, Len(bytes) - 10,
                                            Len(bytes))).val)
                             ELSE None])

(***************************************************************************)
(* tag.rs: the setters                                                     *)
(***************************************************************************)
\* tag.rs 196-209
new_text_frame(frame_id, encoding, data) ==
    [kind |-> "Text",
     header |-> [identifier |-> frame_id, size |-> Len(data) + 1,
                 flags |-> <<0, 0>>],
     info |-> [encoding |-> encoding, data |-> data]]

\* tag.rs 211-228
new_attached_picture_frame(picture) ==
    [kind |-> "Picture",
     header |-> [identifier |-> APIC, size |-> Picture_size(picture),
                 flags |-> <<0, 0>>],
     picture |-> [encoding |-> picture.encoding,
                  mime |-> picture.mime,
                  picture_type |-> 3,
                  description |-> picture.description,
                  data |-> picture.data]]

\* frames.iter().position(..) of tag.rs 232-235 and 261-264: only Text frames
\* are compared with the identifier, a Picture frame never matches.
RECURSIVE position_from(_, _, _)
position_from(frames, frame_id, i) ==
    IF i > Len(frames) THEN 0
    ELSE IF frames[i].kind = "Text" /\ frames[i].header.identifier = frame_id
         THEN i
    ELSE position_from(frames, frame_id, i + 1)

position_last(frames, frame_id) ==
    LET matches == {i \in 1..Len(frames) :
                       /\ frames[i].kind = "Text"
                       /\ frames[i].header.identifier = frame_id}
    IN  IF matches = {} THEN 0
        ELSE CHOOSE i \in matches : \A j \in matches : j <= i

position(frames, frame_id) == position_from(frames, frame_id, 1)

set_text_frame_appending(t, frame_id, data, checks) ==
    LET new_frame == new_text_frame(frame_id, 3, data)
        new_len == Len(Frame_into_bytes(new_frame))
    IN  IF checks /\ U32AddOverflows(t.header.size, new_len)
        THEN Panic
        ELSE Ok([t EXCEPT !.header.size = @ + new_len,
                          !.frames = Append(@, new_frame)])

\* tag.rs 230-258.  checks is the build's overflow-checks setting: the
\* subtraction of line 239 panics when it is on and wraps when it is off.
set_text_frame(t, frame_id, data, checks) ==
    LET idx == position(t.frames, frame_id)
    IN  IF idx # 0 THEN
            LET prev_len == Len(Id3v2TextFrame_into_bytes(t.frames[idx]))
                new_frame == new_text_frame(frame_id, 3, data)
                new_len == Len(Id3v2TextFrame_into_bytes(new_frame))
                size1 == t.header.size - prev_len
            IN  IF checks /\ U32SubOverflows(t.header.size, prev_len)
                THEN Panic
                ELSE IF checks /\ U32AddOverflows(size1, new_len) THEN Panic
                ELSE Ok([t EXCEPT !.header.size = size1 + new_len,
                                  !.frames[idx] = new_frame])
        ELSE
            LET new_frame == new_text_frame(frame_id, 3, data)
                new_len == Len(Frame_into_bytes(new_frame))
            IN  IF checks /\ U32AddOverflows(t.header.size, new_len)
                THEN Panic
                ELSE Ok([t EXCEPT !.header.size = @ + new_len,
                                  !.frames = Append(@, new_frame)])

set_attached_picture_frame_prepending(t, picture, checks) ==
    LET new_frame == new_attached_picture_frame(picture)
        new_len == Len(Frame_into_bytes(new_frame))
    IN  IF checks /\ U32AddOverflows(t.header.size, new_len)
        THEN Panic
        ELSE Ok([t EXCEPT !.header.size = @ + new_len,
                          !.frames = <<new_frame>> \o @])

\* tag.rs 260-289
set_attached_picture_frame(t, picture, checks) ==
    LET idx == position(t.frames, APIC)
    IN  IF idx # 0 THEN
            IF t.frames[idx].kind = "Picture" THEN
                LET prev_len == Picture_size(t.frames[idx].picture)
                    size1 == t.header.size - prev_len
                IN  IF checks /\ U32SubOverflows(t.header.size, prev_len)
                    THEN Panic
                    ELSE IF checks /\ U32AddOverflows(size1, Picture_size(picture))
                    THEN Panic
                    ELSE Ok([t EXCEPT
                             !.header.size = size1 + Picture_size(picture),
                             !.frames[idx] = new_attached_picture_frame(picture)])
            ELSE Err
        ELSE
            LET new_frame == new_attached_picture_frame(picture)
                new_len == Len(Frame_into_bytes(new_frame))
            IN  IF checks /\ U32AddOverflows(t.header.size, new_len)
                THEN Panic
                ELSE Ok([t EXCEPT !.header.size = @ + new_len,
                                  !.frames = Append(@, new_frame)])

(***************************************************************************)
(* Inputs: the tag buffers handed to parse_tag and the setter arguments    *)
(***************************************************************************)
MaxCalls == 2

Song == <<83, 111, 110, 103>>

New == <<78, 101, 119>>

Al == <<65, 108>>

Cover == <<99, 111, 118, 101, 114>>

Texts == {New, Song}

Pictures ==
    { [encoding |-> 3, mime |-> ImageJpeg, picture_type |-> 3,
       description |-> Cover, data |-> <<255, 216>>],
      [encoding |-> 0, mime |-> ImagePng, picture_type |-> 3,
       description |-> <<>>, data |-> <<137, 80, 78>>] }

\* a synchsafe size field for a value below 128
SizeField(n) == <<0, 0, 0, n>>

HeaderBytes(flags, n) == <<73, 68, 51, 4, 0, flags>> \o SizeField(n)

FooterBytes(flags, n) == <<51, 68, 73, 4, 0, flags>> \o SizeField(n)

TextFrameBytes(id, text) ==
    id \o SizeField(Len(text) + 1) \o <<0, 0>> \o <<3>> \o text

PicturePayload ==
    <<3>> \o ImageJpeg \o <<0, 3>> \o Cover \o <<0>> \o <<255, 216, 0, 7>>

PictureFrameBytes ==
    APIC \o SizeField(Len(PicturePayload)) \o <<0, 0>> \o PicturePayload

Bodies ==
    { <<>>,
      TextFrameBytes(TIT2, Song),
      TextFrameBytes(TIT2, Song) \o TextFrameBytes(TALB, Al),
      TextFrameBytes(TPE1, Al) \o TextFrameBytes(TIT2, Song)
          \o TextFrameBytes(TIT2, Al),
      PictureFrameBytes,
      TextFrameBytes(TPE2, New) \o PictureFrameBytes }

Paddings == { <<>>, <<0, 0, 0, 0, 0, 0>> }

\* header, frames, padding, optional footer; sized is FALSE for a buffer whose
\* size field is 0 whatever follows the header
TagBytes(body, pad, footer, sized) ==
    LET n == IF sized THEN Len(body) + Len(pad) ELSE 0
    IN  HeaderBytes(0, n) \o body \o pad
        \o (IF footer THEN FooterBytes(0, n) ELSE <<>>)

\* a tag whose header announces an extended header (flag 0x40)
ExtendedTagBytes(ext, body) ==
    HeaderBytes(64, Len(ext) + Len(body)) \o ext \o body

ExtendedHeaders ==
    { <<0, 0, 0, 6, 1, 0>>,
      <<0, 0, 0, 12, 1, 16, 0, 5, 0, 0, 0, 1, 2, 1, 9, 0>>,
      <<0, 0, 0, 10, 1, 0, 0, 0, 0, 0>>,
      <<0, 0, 0, 15, 1, 16, 0, 5, 0, 0, 0, 1, 2, 1, 9>> }

\* "TYER", an identifier parse_frame does not know
UnknownId == <<84, 89, 69, 82>>

\* frame regions that end inside a frame: three bytes of an identifier, a
\* frame header without payload, two zero bytes, two bytes that are not UTF-8
TruncatedBodies ==
    { TextFrameBytes(TIT2, Song) \o <<84, 73, 84>>,
      <<84, 73, 84, 50, 0, 0, 0, 5, 0, 0>>,
      <<0, 0>>,
      <<255, 1>> }

\* frame regions that hold a well-formed frame with an unknown identifier
UnknownBodies ==
    { TextFrameBytes(UnknownId, Al),
      TextFrameBytes(TIT2, Song) \o TextFrameBytes(UnknownId, Al) }

\* a frame region with a frame, four zero bytes and bytes that would decode
\* as another frame
SentinelBody ==
    TextFrameBytes(TIT2, Song) \o <<0, 0, 0, 0>> \o TextFrameBytes(TALB, Al)

\* buffers that do not start with "ID3": too short for a header, a wrong
\* version of the magic, and a tag whose first byte is damaged
NotId3Buffers ==
    { <<88, 89, 90>>,
      <<73, 68, 52, 4, 0, 0, 0, 0, 0, 0>>,
      <<0, 68, 51, 4, 0, 0>> \o SizeField(15) \o TextFrameBytes(TIT2, Song),
      <<73, 0, 51, 4, 0, 0>> \o SizeField(7) \o TextFrameBytes(UnknownId, Al) }

Inputs ==
    { TagBytes(body, pad, footer, sized) :
        body \in Bodies, pad \in Paddings,
        footer \in BOOLEAN, sized \in BOOLEAN }
    \cup { ExtendedTagBytes(ext, TextFrameBytes(TIT2, Song)) :
             ext \in ExtendedHeaders }
    \cup { TagBytes(body, <<>>, footer, TRUE) :
             body \in TruncatedBodies \cup UnknownBodies \cup {SentinelBody},
             footer \in BOOLEAN }
    \cup NotId3Buffers

\* the first bytes of an audio stream
Audio == <<255, 251, 144, 100, 0, 1, 2, 3, 4, 5, 6, 7, 8>>

\* what follows the tag in a file: nothing, a few bytes, an audio stream,
\* and streams that hold the bytes 0x33 0x44 0x49 at offset 0 or 10
Audios ==
    { <<>>,
      <<255, 251, 144>>,
      Audio,
      <<51, 68, 73>> \o Audio,
      SubSeq(Audio, 1, 10) \o <<51, 68, 73>> \o Audio }

FileBodies ==
    { <<>>,
      TextFrameBytes(TIT2, Song),
      TextFrameBytes(TIT2, Song) \o TextFrameBytes(TALB, Al) }

\* whole files: a tag whose size field is right, with or without padding
\* and footer, followed by the audio bytes
Files ==
    { TagBytes(body, pad, footer, TRUE) \o audio :
        body \in FileBodies, pad \in Paddings,
        footer \in BOOLEAN, audio \in Audios }

ImageGif == <<105, 109, 97, 103, 101, 47, 103, 105, 102>>

\* Picture values a caller can build: mime and description are Strings
PictureValues ==
    [encoding : {0, 3},
     mime : {ImageJpeg, ImagePng, ImageGif},
     picture_type : {3, 4},
     description : {<<>>, Cover},
     data : {<<>>, <<255, 216, 0, 7>>}]

\* the fields of the picture of the scenario
JpegCover ==
    [encoding |-> 3, mime |-> ImageJpeg, picture_type |-> 3,
     description |-> Cover, data |-> <<255, 216, 0, 7>>]

\* field values an APIC payload of a file can carry: the above and an
\* ISO-8859-1 description (encoding 0) with a byte above 0x7F
PictureFields ==
    PictureValues
    \cup { [encoding |-> 0, mime |-> ImagePng, picture_type |-> 3,
            description |-> <<99, 233>>, data |-> <<137, 80>>] }

\* the attached-picture payload of the format: encoding, MIME, 0x00,
\* picture type, description, 0x00, image bytes
AttachedPictureLayout(f) ==
    <<f.encoding>> \o f.mime \o <<0>> \o <<f.picture_type>>
        \o f.description \o <<0>> \o f.data

\* payloads handed to extract_picture: complete ones, and every prefix of
\* the payload of the scenario
PicturePayloads ==
    { AttachedPictureLayout(f) : f \in PictureFields }
    \cup { SubSeq(AttachedPictureLayout(JpegCover), 1, n) :
             n \in 0..Len(AttachedPictureLayout(JpegCover)) }

\* an extended header as parse_extended_header accepts it: the size field
\* is the length minus 10; the CRC is laid out when flag bit 0x20 is set, the
\* restrictions byte when flag bit 0x10 is set; pad is what follows
ExtendedHeaderBytes(flags, b, crc, d, r, pad) ==
    LET fields == <<1, flags, b, 5>>
                  \o (IF BitSet(flags, 32) THEN crc ELSE <<>>)
                  \o <<d>>
                  \o (IF BitSet(flags, 16) THEN <<r>> ELSE <<>>)
                  \o pad
    IN  SizeField(Len(fields) + 4 - 10) \o fields

ExtendedHeaderInputs ==
    { ExtendedHeaderBytes(flags, b, crc, d, r, pad) :
        flags \in {0, 16, 32, 48},
        b \in {0, 1},
        crc \in { <<0, 0, 0, 1, 2>>, <<1, 0, 0, 0, 0>> },
        d \in {1, 2},
        r \in {7, 9},
        pad \in { <<0>>, <<0, 0, 0, 0, 0, 0>> } }

\* frame regions for the scan: up to MaxFrames frames back to back, then
\* nothing, padding, a short tail, an unknown frame, or a frame whose size
\* field runs over the region
MaxFrames == 3

ScanFrames ==
    { TextFrameBytes(TIT2, Song), TextFrameBytes(TALB, Al),
      TextFrameBytes(TPE1, New), TextFrameBytes(TPE2, Al) }

RECURSIVE FrameRuns(_)
FrameRuns(n) ==
    IF n = 0 THEN { <<>> }
    ELSE FrameRuns(n - 1)
         \cup { run \o f : run \in FrameRuns(n - 1), f \in ScanFrames }

ScanTails ==
    { <<>>, <<0, 0, 0, 0, 0, 0>>, <<84, 73, 84>>, <<0, 0>>, <<255, 1>>,
      TextFrameBytes(UnknownId, Al),
      <<84, 73, 84, 50, 0, 0, 0, 99, 0, 0, 3>> }

Regions == { run \o tail : run \in FrameRuns(MaxFrames), tail \in ScanTails }

CodecDigits == {0, 1, 64, 127}

CodecValues ==
    { b0 * 2097152 + b1 * 16384 + b2 * 128 + b3 :
        b0 \in CodecDigits, b1 \in CodecDigits,
        b2 \in CodecDigits, b3 \in CodecDigits }

(***************************************************************************)
(* The program: decode once, call setters, serialize, decode again         *)
(***************************************************************************)
NoTag == [header |-> <<>>, extended_header |-> None, frames |-> <<>>,
          footer |-> None]

NoCall == [op |-> "none", id |-> <<>>, text |-> <<>>, picture |-> <<>>]

Init ==
    /\ input \in Inputs
    /\ overflow_checks \in BOOLEAN
    /\ status = parse_tag(input).status
    /\ tag = IF parse_tag(input).status = "Ok" THEN parse_tag(input).val
             ELSE NoTag
    /\ before = NoTag
    /\ lastCall = NoCall
    /\ beforePrev = NoTag
    /\ prevCall = NoCall
    /\ ncalls = 0
    /\ output = None
    /\ reparsed = None
    /\ value = 0
    /\ encoded = None
    /\ decoded = None
    /\ file = <<>>
    /\ located = None
    /\ pic = None
    /\ payload = None
    /\ scan = ScanStart
    /\ pos = 0
    /\ extracted = None
    /\ frame_bytes = <<>>
    /\ frame_idx = 0
    /\ frames_found = <<>>
    /\ loop = "idle"

CanCall == status = "Ok" /\ ncalls < MaxCalls

\* the common part of the four text setters (tag.rs 291-318): the result of
\* set_text_frame is handed back as it is
TextSetter(op, id, x) ==
    LET r == set_text_frame(tag, id, x, overflow_checks)
    IN  /\ CanCall
        /\ before' = tag
        /\ lastCall' = [op |-> op, id |-> id, text |-> x, picture |-> <<>>]
        /\ beforePrev' = before
        /\ prevCall' = lastCall
        /\ ncalls' = ncalls + 1
        /\ status' = r.status
        /\ tag' = IF r.status = "Ok" THEN r.val ELSE tag
        /\ output' = None
        /\ reparsed' = None
        /\ UNCHANGED <<frameScanVars, locatorVars, pictureVars, input, overflow_checks, value, encoded, decoded>>

set_song_title == \E x \in Texts : TextSetter("set_song_title", TIT2, x)

set_song_artist_name ==
    \E x \in Texts : TextSetter("set_song_artist_name", TPE1, x)

set_album_title == \E x \in Texts : TextSetter("set_album_title", TALB, x)

set_album_artist_name ==
    \E x \in Texts : TextSetter("set_album_artist_name", TPE2, x)

\* tag.rs 320-325
set_cover_art ==
    \E p \in Pictures :
        LET r == set_attached_picture_frame(tag, p, overflow_checks)
        IN  /\ CanCall
            /\ before' = tag
            /\ lastCall' = [op |-> "set_cover_art", id |-> APIC,
                            text |-> <<>>, picture |-> <<p>>]
            /\ beforePrev' = before
            /\ prevCall' = lastCall
            /\ ncalls' = ncalls + 1
            /\ status' = r.status
            /\ tag' = IF r.status = "Ok" THEN r.val ELSE tag
            /\ output' = None
            /\ reparsed' = None
            /\ UNCHANGED <<frameScanVars, locatorVars, pictureVars, input, overflow_checks, value, encoded, decoded>>

\* the caller serializes the tag it holds
Serialize ==
    /\ status = "Ok"
    /\ output = None
    /\ output' = Some(into_bytes(tag))
    /\ UNCHANGED <<frameScanVars, locatorVars, pictureVars, input, status, tag, before, lastCall, beforePrev, prevCall, ncalls,
                   overflow_checks, reparsed, value, encoded, decoded>>

\* the serialized bytes are decoded again
Reparse ==
    /\ output # None
    /\ reparsed = None
    /\ reparsed' = Some(parse_tag(output[1]))
    /\ UNCHANGED <<frameScanVars, locatorVars, pictureVars, input, status, tag, before, lastCall, beforePrev, prevCall, ncalls,
                   overflow_checks, output, value, encoded, decoded>>

Next ==
    \/ set_song_title
    \/ set_song_artist_name
    \/ set_album_title
    \/ set_album_artist_name
    \/ set_cover_art
    \/ Serialize
    \/ Reparse

Spec == Init /\ [][Next]_vars

(***************************************************************************)
(* The integer codec on its own: encode a value, decode the four bytes     *)
(***************************************************************************)
InitCodec ==
    /\ value \in CodecValues
    /\ encoded = None
    /\ decoded = None
    /\ input = <<>>
    /\ overflow_checks = TRUE
    /\ status = "Ok"
    /\ tag = NoTag
    /\ before = NoTag
    /\ lastCall = NoCall
    /\ beforePrev = NoTag
    /\ prevCall = NoCall
    /\ ncalls = 0
    /\ output = None
    /\ reparsed = None
    /\ file = <<>>
    /\ located = None
    /\ pic = None
    /\ payload = None
    /\ scan = ScanStart
    /\ pos = 0
    /\ extracted = None
    /\ frame_bytes = <<>>
    /\ frame_idx = 0
    /\ frames_found = <<>>
    /\ loop = "idle"

Encode ==
    /\ encoded = None
    /\ encoded' = Some(convert_u32_to_safesynch(value))
    /\ UNCHANGED <<frameScanVars, locatorVars, pictureVars, input, status, tag, before, lastCall, beforePrev, prevCall, ncalls,
                   overflow_checks, output, reparsed, value, decoded>>

Decode ==
    /\ encoded # None
    /\ decoded = None
    /\ decoded' = Some(convert_safesynch_to_u32(encoded[1][1], encoded[1][2],
                                                encoded[1][3], encoded[1][4]))
    /\ UNCHANGED <<frameScanVars, locatorVars, pictureVars, input, status, tag, before, lastCall, beforePrev, prevCall, ncalls,
                   overflow_checks, output, reparsed, value, encoded>>

NextCodec == Encode \/ Decode

SpecCodec == InitCodec /\ [][NextCodec]_vars

(***************************************************************************)
(* A whole file: locate the tag, decode it, call setters, write the file   *)
(***************************************************************************)
InitLocate ==
    /\ file \in Files
    /\ located = None
    /\ overflow_checks \in BOOLEAN
    /\ input = <<>>
    /\ status = "NotDecoded"
    /\ tag = NoTag
    /\ before = NoTag
    /\ lastCall = NoCall
    /\ beforePrev = NoTag
    /\ prevCall = NoCall
    /\ ncalls = 0
    /\ output = None
    /\ reparsed = None
    /\ value = 0
    /\ encoded = None
    /\ decoded = None
    /\ pic = None
    /\ payload = None
    /\ scan = ScanStart
    /\ pos = 0
    /\ extracted = None
    /\ frame_bytes = <<>>
    /\ frame_idx = 0
    /\ frames_found = <<>>
    /\ loop = "idle"

\* extract_tag splits the file
Locate ==
    /\ located = None
    /\ located' = Some(extract_tag(file))
    /\ UNCHANGED <<frameScanVars, file, pictureVars, input, status, tag, before, lastCall,
                   beforePrev, prevCall, ncalls, overflow_checks, output,
                   reparsed, value, encoded, decoded>>

\* the tag bytes extract_tag returned are decoded
DecodeLocated ==
    /\ located # None
    /\ located[1].status = "Ok"
    /\ status = "NotDecoded"
    /\ input' = located[1].val.tag_bytes
    /\ status' = parse_tag(input').status
    /\ tag' = IF parse_tag(input').status = "Ok" THEN parse_tag(input').val
              ELSE NoTag
    /\ UNCHANGED <<frameScanVars, locatorVars, pictureVars, before, lastCall, beforePrev,
                   prevCall, ncalls, overflow_checks, output, reparsed,
                   value, encoded, decoded>>

\* the serialized tag followed by the audio bytes extract_tag returned
WriteTagged ==
    /\ located # None
    /\ status = "Ok"
    /\ output = None
    /\ output' = Some(into_bytes(tag) \o located[1].val.remaining_bytes)
    /\ UNCHANGED <<frameScanVars, locatorVars, pictureVars, input, status, tag, before,
                   lastCall, beforePrev, prevCall, ncalls, overflow_checks,
                   reparsed, value, encoded, decoded>>

NextLocate ==
    \/ Locate
    \/ DecodeLocated
    \/ set_song_title
    \/ set_song_artist_name
    \/ set_album_title
    \/ set_album_artist_name
    \/ set_cover_art
    \/ WriteTagged

SpecLocate == InitLocate /\ [][NextLocate]_vars

(***************************************************************************)
(* The picture payload: serialize a Picture or take the payload of a       *)
(* frame, then run the loop of extract_picture byte by byte                *)
(***************************************************************************)
InitPicture ==
    /\ \/ pic \in {Some(p) : p \in PictureValues} /\ payload = None
       \/ pic = None /\ payload \in {Some(b) : b \in PicturePayloads}
    /\ scan = ScanStart
    /\ pos = 0
    /\ extracted = None
    /\ frame_bytes = <<>>
    /\ frame_idx = 0
    /\ frames_found = <<>>
    /\ loop = "idle"
    /\ file = <<>>
    /\ located = None
    /\ input = <<>>
    /\ overflow_checks = TRUE
    /\ status = "Ok"
    /\ tag = NoTag
    /\ before = NoTag
    /\ lastCall = NoCall
    /\ beforePrev = NoTag
    /\ prevCall = NoCall
    /\ ncalls = 0
    /\ output = None
    /\ reparsed = None
    /\ value = 0
    /\ encoded = None
    /\ decoded = None

\* Picture::into_bytes gives the payload of the frame
PictureIntoBytes ==
    /\ pic # None
    /\ payload = None
    /\ payload' = Some(Picture_into_bytes(pic[1]))
    /\ UNCHANGED <<frameScanVars, locatorVars, pic, scan, pos, extracted, input, status, tag,
                   before, lastCall, beforePrev, prevCall, ncalls,
                   overflow_checks, output, reparsed, value, encoded, decoded>>

\* one iteration of the for loop of extract_picture
ScanByte ==
    /\ payload # None
    /\ pos < Len(payload[1])
    /\ scan' = PictureStep(scan, payload[1][pos + 1])
    /\ pos' = pos + 1
    /\ UNCHANGED <<frameScanVars, locatorVars, pic, payload, extracted, input, status, tag,
                   before, lastCall, beforePrev, prevCall, ncalls,
                   overflow_checks, output, reparsed, value, encoded, decoded>>

\* the loop is over: extract_picture builds its result
BuildPicture ==
    /\ payload # None
    /\ pos = Len(payload[1])
    /\ extracted = None
    /\ extracted' = Some(extract_picture(payload[1]))
    /\ UNCHANGED <<frameScanVars, locatorVars, pic, payload, scan, pos, input, status, tag,
                   before, lastCall, beforePrev, prevCall, ncalls,
                   overflow_checks, output, reparsed, value, encoded, decoded>>

NextPicture == PictureIntoBytes \/ ScanByte \/ BuildPicture

SpecPicture == InitPicture /\ [][NextPicture]_vars

(***************************************************************************)
(* The extended header on its own: parse the bytes, serialize the result   *)
(***************************************************************************)
InitExtended ==
    /\ input \in ExtendedHeaderInputs
    /\ status = "NotDecoded"
    /\ tag = NoTag
    /\ overflow_checks = TRUE
    /\ before = NoTag
    /\ lastCall = NoCall
    /\ beforePrev = NoTag
    /\ prevCall = NoCall
    /\ ncalls = 0
    /\ output = None
    /\ reparsed = None
    /\ value = 0
    /\ encoded = None
    /\ decoded = None
    /\ file = <<>>
    /\ located = None
    /\ pic = None
    /\ payload = None
    /\ scan = ScanStart
    /\ pos = 0
    /\ extracted = None
    /\ frame_bytes = <<>>
    /\ frame_idx = 0
    /\ frames_found = <<>>
    /\ loop = "idle"

\* parse_extended_header; the result becomes the tag's extended_header
ParseExtendedHeader ==
    LET r == parse_extended_header(input)
    IN  /\ status = "NotDecoded"
        /\ status' = r.status
        /\ tag' = IF r.status = "Ok"
                  THEN [NoTag EXCEPT !.extended_header = Some(r.val)]
                  ELSE NoTag
        /\ UNCHANGED <<frameScanVars, locatorVars, pictureVars, input, before, lastCall,
                       beforePrev, prevCall, ncalls, overflow_checks, output,
                       reparsed, value, encoded, decoded>>

\* Id3v2ExtendedHeader::into_bytes of the parsed extended header
ExtendedHeaderIntoBytes ==
    /\ status = "Ok"
    /\ tag.extended_header # None
    /\ output = None
    /\ output' = Some(Id3v2ExtendedHeader_into_bytes(tag.extended_header[1]))
    /\ UNCHANGED <<frameScanVars, locatorVars, pictureVars, input, status, tag, before,
                   lastCall, beforePrev, prevCall, ncalls, overflow_checks,
                   reparsed, value, encoded, decoded>>

NextExtended == ParseExtendedHeader \/ ExtendedHeaderIntoBytes

SpecExtended == InitExtended /\ [][NextExtended]_vars

(***************************************************************************)
(* The frame scan on its own: the loop of parse_frames, one iteration at   *)
(* a time                                                                  *)
(***************************************************************************)
InitScan ==
    /\ frame_bytes \in Regions
    /\ frame_idx = 0
    /\ frames_found = <<>>
    /\ loop = "running"
    /\ input = <<>>
    /\ status = "NotDecoded"
    /\ tag = NoTag
    /\ overflow_checks = TRUE
    /\ before = NoTag
    /\ lastCall = NoCall
    /\ beforePrev = NoTag
    /\ prevCall = NoCall
    /\ ncalls = 0
    /\ output = None
    /\ reparsed = None
    /\ value = 0
    /\ encoded = None
    /\ decoded = None
    /\ file = <<>>
    /\ located = None
    /\ pic = None
    /\ payload = None
    /\ scan = ScanStart
    /\ pos = 0
    /\ extracted = None

\* the outcome of one pass through the loop condition and body of
\* parse.rs 190-218: the new offset, frame list and loop state
FrameScanIteration ==
    LET stay(l) == [idx |-> frame_idx, frames |-> frames_found, loop |-> l]
    IN  IF ~(frame_idx < Len(frame_bytes)) THEN stay("done")
        ELSE IF Sentinel(frame_bytes, frame_idx) = "stop" THEN stay("done")
        ELSE IF Sentinel(frame_bytes, frame_idx) = "oob" THEN stay("panic")
        ELSE IF Len(frame_bytes) - frame_idx < 11 THEN
            IF Utf8Valid(Slice(frame_bytes, frame_idx, Len(frame_bytes)))
            THEN stay("warned") ELSE stay("panic")
        ELSE
            LET ex == extract_frame(frame_idx, frame_bytes)
            IN  IF ex.status # "Ok" THEN stay("panic")
                ELSE
                LET fr == parse_frame(ex.val.frame)
                IN  IF fr.status # "Ok" THEN stay("panic")
                    ELSE [idx |-> ex.val.end,
                          frames |-> Append(frames_found, fr.val),
                          loop |-> "running"]

FrameScanStep ==
    /\ loop = "running"
    /\ frame_idx' = FrameScanIteration.idx
    /\ frames_found' = FrameScanIteration.frames
    /\ loop' = FrameScanIteration.loop
    /\ UNCHANGED <<frame_bytes, locatorVars, pictureVars, input, status, tag,
                   before, lastCall, beforePrev, prevCall, ncalls,
                   overflow_checks, output, reparsed, value, encoded, decoded>>

NextScan == FrameScanStep

SpecScan == InitScan /\ [][NextScan]_vars

\* the loop is sequential code: while an iteration is possible it is taken
SpecScanFair == SpecScan /\ WF_vars(FrameScanStep)

(***************************************************************************)
(* Properties                                                              *)
(***************************************************************************)
\* the synchsafe value stored at bytes 6..10 of a serialized tag
SizeFieldOf(bytes) ==
    convert_safesynch_to_u32(At(bytes, 6), At(bytes, 7),
                             At(bytes, 8), At(bytes, 9))

\* y is x + d as unsigned 32-bit numbers, without wrapping: the stored
\* patterns differ by d and lie in the same half of the range
U32IsSum(y, x, d) == y = x + d /\ (y >= 0) = (x >= 0)

RECURSIVE CountId(_, _)
CountId(frames, id) ==
    IF frames = <<>> THEN 0
    ELSE (IF Head(frames).header.identifier = id THEN 1 ELSE 0)
         + CountId(Tail(frames), id)

TextOps == {"set_song_title", "set_song_artist_name", "set_album_title",
            "set_album_artist_name"}

\* C1: whenever a tag that was decoded and then changed by any sequence of
\* setter calls is serialized, the synchsafe value at bytes 6..10 of the
\* output is the output length minus 10, minus 10 more when the tag has a
\* footer.
C1_SizeFieldMatchesLength ==
    output # None =>
        SizeFieldOf(output[1]) =
            Len(output[1]) - 10 - (IF tag.footer # None THEN 10 ELSE 0)

\* a tag with a footer, changed by two setter calls, whose running size had
\* drifted from the real length, has been serialized
C1_Witness ==
    /\ output # None
    /\ ncalls >= 2
    /\ tag.footer # None
    /\ tag.header.size # Len(output[1]) - 20

\* C3: for the values of [0, 2^28-1], decoding the four bytes the encoder
\* produced gives the value back, and every encoded byte is at most 0x7F.
C3_SynchsafeRoundTrip ==
    /\ encoded # None => \A i \in 1..4 : encoded[1][i] <= 127
    /\ decoded # None => decoded[1] = value

\* the largest 28-bit value has been encoded and decoded
C3_Witness == decoded # None /\ value = 268435455

\* C7: a tag with no frames, no extended header and no footer serializes to
\* exactly ten bytes whose size field is zero, whatever the model's
\* header.size is.
C7_ZeroFrameTag ==
    (/\ output # None
     /\ tag.frames = <<>>
     /\ tag.extended_header = None
     /\ tag.footer = None)
    => /\ Len(output[1]) = 10
       /\ SubSeq(output[1], 7, 10) = <<0, 0, 0, 0>>

\* a frameless tag decoded from a header followed by padding only, whose
\* header.size is not zero, has been serialized
C7_Witness ==
    /\ output # None
    /\ tag.frames = <<>>
    /\ tag.extended_header = None
    /\ tag.footer = None
    /\ tag.header.size # 0

\* the tag bytes of the scenario: "ID3" 04 00 00, size field 0, one TIT2
\* frame with payload 03 "Song"
ScenarioBytes ==
    <<73, 68, 51, 4, 0, 0, 0, 0, 0, 0,
      84, 73, 84, 50, 0, 0, 0, 5, 0, 0, 3, 83, 111, 110, 103>>

\* C2: decoding the serialization of a tag that parse_tag decoded succeeds
\* and gives the same header size, the same number of frames and the same
\* frame contents.
C2_RoundTrip ==
    (reparsed # None /\ ncalls = 0) =>
        /\ reparsed[1].status = "Ok"
        /\ reparsed[1].val.header.size = tag.header.size
        /\ Len(reparsed[1].val.frames) = Len(tag.frames)
        /\ reparsed[1].val.frames = tag.frames

\* C4: set_song_title(x) called a second time with the same x leaves the
\* frame list, the running header.size and the serialized length as the
\* first call left them, and a tag that held at most one TIT2 frame holds
\* exactly one after the call.
C4_IdempotentTitle ==
    /\ (/\ lastCall.op = "set_song_title"
        /\ status = "Ok"
        /\ CountId(before.frames, TIT2) <= 1)
       => CountId(tag.frames, TIT2) = 1
    /\ (lastCall.op = "set_song_title" /\ prevCall = lastCall)
       => /\ status = "Ok"
          /\ tag.frames = before.frames
          /\ tag.header.size = before.header.size
          /\ Len(into_bytes(tag)) = Len(into_bytes(before))

\* set_song_title(x) has run twice in a row on a tag that had no TIT2 frame:
\* the first call appended, the second replaced
C4_Witness ==
    /\ lastCall.op = "set_song_title"
    /\ prevCall = lastCall
    /\ status = "Ok"
    /\ CountId(beforePrev.frames, TIT2) = 0
    /\ CountId(tag.frames, TIT2) = 1

\* C5: on a tag without an APIC frame the first set_cover_art appends one
\* Picture frame and raises header.size by 10 + payload length; a second
\* set_cover_art with another picture replaces that frame in place, so the
\* frame count stays and the frame holds the second picture.
C5_CoverArtAppendThenReplace ==
    /\ (lastCall.op = "set_cover_art" /\ CountId(before.frames, APIC) = 0)
       => /\ status = "Ok"
          /\ Len(tag.frames) = Len(before.frames) + 1
          /\ SubSeq(tag.frames, 1, Len(before.frames)) = before.frames
          /\ tag.frames[Len(tag.frames)].kind = "Picture"
          /\ U32IsSum(tag.header.size, before.header.size,
                      10 + Len(Picture_into_bytes(
                                   tag.frames[Len(tag.frames)].picture)))
    /\ (/\ lastCall.op = "set_cover_art"
        /\ prevCall.op = "set_cover_art"
        /\ lastCall.picture # prevCall.picture
        /\ CountId(beforePrev.frames, APIC) = 0)
       => /\ status = "Ok"
          /\ Len(tag.frames) = Len(before.frames)
          /\ tag.frames[Len(before.frames)].picture = lastCall.picture[1]

\* C6: the scenario buffer decodes to one Text frame with encoding 3 and
\* text "Song"; set_song_title("New") then succeeds and the serialized tag
\* has a 14-byte body and a size field of 14.
C6_Scenario ==
    input = ScenarioBytes =>
        /\ ncalls = 0 =>
            /\ status = "Ok"
            /\ Len(tag.frames) = 1
            /\ tag.frames[1].kind = "Text"
            /\ tag.frames[1].info = [encoding |-> 3, data |-> Song]
        /\ (/\ ncalls = 1
            /\ lastCall.op = "set_song_title"
            /\ lastCall.text = New)
           => /\ status = "Ok"
              /\ output # None =>
                    /\ Len(output[1]) - 10 = 14
                    /\ SizeFieldOf(output[1]) = 14

\* C8: a text setter that finds a Text frame with its identifier keeps the
\* frame at its index, gives it the new text and the frame size text + 1,
\* and changes header.size by exactly the difference of the serialized
\* frame lengths.
C8_ReplacePath ==
    (lastCall.op \in TextOps /\ position(before.frames, lastCall.id) # 0) =>
        LET idx == position(before.frames, lastCall.id)
        IN  /\ status = "Ok"
            /\ Len(tag.frames) = Len(before.frames)
            /\ tag.frames[idx].kind = "Text"
            /\ tag.frames[idx].header.identifier = lastCall.id
            /\ tag.frames[idx].info.data = lastCall.text
            /\ tag.frames[idx].header.size = Len(lastCall.text) + 1
            /\ U32IsSum(tag.header.size, before.header.size,
                        Len(Frame_into_bytes(tag.frames[idx]))
                        - Len(Frame_into_bytes(before.frames[idx])))

\* C9: a text setter that finds no frame with its identifier appends one
\* Text frame with encoding 3, flags 00 00 and frame size text + 1, and
\* raises header.size by 10 + 1 + text length.
C9_AppendPath ==
    (lastCall.op \in TextOps /\ CountId(before.frames, lastCall.id) = 0) =>
        /\ status = "Ok"
        /\ Len(tag.frames) = Len(before.frames) + 1
        /\ SubSeq(tag.frames, 1, Len(before.frames)) = before.frames
        /\ tag.frames[Len(tag.frames)] =
              [kind |-> "Text",
               header |-> [identifier |-> lastCall.id,
                           size |-> Len(lastCall.text) + 1,
                           flags |-> <<0, 0>>],
               info |-> [encoding |-> 3, data |-> lastCall.text]]
        /\ U32IsSum(tag.header.size, before.header.size,
                    10 + 1 + Len(lastCall.text))

\* Every frame of a tag the program holds has the kind its identifier
\* selects in parse_frame: Picture frames carry APIC, Text frames one of the
\* text identifiers.
KindMatchesId ==
    \A i \in 1..Len(tag.frames) :
        IF tag.frames[i].kind = "Picture"
        THEN tag.frames[i].header.identifier = APIC
        ELSE tag.frames[i].header.identifier \in TextIds

\* the index of the first frame of the list that carries the identifier,
\* 0 when there is none
FirstWithId(frames, id) ==
    LET matches == {i \in 1..Len(frames) : frames[i].header.identifier = id}
    IN  IF matches = {} THEN 0
        ELSE CHOOSE i \in matches : \A j \in matches : i <= j

\* C11: a setter call never shrinks or reorders the frame list: either the
\* length stays and no frame but the one at the matched index changes, or
\* the length grows by exactly one and the old list is the prefix of the new
\* one.
C11_FramesNeverShrinkOrReorder ==
    (lastCall.op # "none" /\ status = "Ok") =>
        \/ /\ Len(tag.frames) = Len(before.frames)
           /\ \A j \in 1..Len(before.frames) :
                  j # position(before.frames, lastCall.id)
                  => tag.frames[j] = before.frames[j]
        \/ /\ Len(tag.frames) = Len(before.frames) + 1
           /\ SubSeq(tag.frames, 1, Len(before.frames)) = before.frames

\* both cases have happened in one run: a call appended to a list that
\* already held frames, and the next call replaced a frame that is not the
\* last one of a list of three or more
C11_Witness ==
    /\ status = "Ok"
    /\ prevCall.op # "none"
    /\ beforePrev.frames # <<>>
    /\ Len(before.frames) = Len(beforePrev.frames) + 1
    /\ Len(tag.frames) = Len(before.frames)
    /\ Len(tag.frames) >= 3
    /\ position(before.frames, lastCall.id) \in 1..(Len(tag.frames) - 1)
    /\ tag.frames # before.frames

\* C12: when the list holds several frames with the setter's identifier, the
\* call removes no frame and leaves every frame but the first one with that
\* identifier as it was; a text setter gives that first frame the new text.
C12_OnlyFirstMatchModified ==
    (/\ lastCall.op # "none"
     /\ status = "Ok"
     /\ CountId(before.frames, lastCall.id) >= 2)
    => LET first == FirstWithId(before.frames, lastCall.id)
       IN  /\ Len(tag.frames) >= Len(before.frames)
           /\ \A j \in 1..Len(before.frames) :
                  j # first => tag.frames[j] = before.frames[j]
           /\ lastCall.op \in TextOps
              => /\ Len(tag.frames) = Len(before.frames)
                 /\ tag.frames[first].info.data = lastCall.text

\* set_song_title has changed the first of two TIT2 frames whose texts both
\* differ from the new one
C12_Witness ==
    /\ lastCall.op = "set_song_title"
    /\ status = "Ok"
    /\ CountId(before.frames, TIT2) = 2
    /\ tag.frames # before.frames
    /\ \A j \in 1..Len(before.frames) :
           before.frames[j].header.identifier = TIT2
           => before.frames[j].info.data # lastCall.text

\* the frame region parse_tag hands to the frame scan, for a tag without the
\* extended-header flag
FrameRegion(bytes) ==
    Slice(bytes, 10,
          IF footer_present(bytes) THEN Len(bytes) - 10 ELSE Len(bytes))

\* where a scan of the region from offset idx comes to rest, read off the
\* bytes alone: at the end of the region, at four zero bytes, at a tail of
\* fewer than 11 bytes, at a frame that runs over the region, at a frame
\* with an unknown identifier, or at a known frame that cannot be decoded
RECURSIVE ScanEnd(_, _)
ScanEnd(region, idx) ==
    IF idx >= Len(region) THEN "end"
    ELSE IF /\ Len(region) - idx >= 4
            /\ SubSeq(region, idx + 1, idx + 4) = <<0, 0, 0, 0>>
         THEN "sentinel"
    ELSE IF Len(region) - idx < 11 THEN "truncated"
    ELSE
        LET id == SubSeq(region, idx + 1, idx + 4)
            end == idx + 10
                   + convert_safesynch_to_u32(region[idx + 5], region[idx + 6],
                                              region[idx + 7], region[idx + 8])
        IN  IF end > Len(region) THEN "overrun"
            ELSE IF id \notin (TextIds \cup {APIC}) THEN "unknown"
            ELSE IF parse_frame(SubSeq(region, idx + 1, end)).status # "Ok"
                 THEN "undecodable"
            ELSE ScanEnd(region, end)

\* the decode of the input is the last thing that happened, and the input
\* is an "ID3" buffer without the extended-header flag
DecodedPlainTag ==
    /\ ncalls = 0
    /\ Len(input) >= 10
    /\ SubSeq(input, 1, 3) = <<73, 68, 51>>
    /\ ~BitSet(At(input, 5), 64)

\* C13: when the frame scan stops at a tail of 1 to 10 bytes that does not
\* start with four zero bytes, parse_tag returns an error value: it does
\* not panic and it does not return a tag.
C13_TruncatedFrameReported ==
    (DecodedPlainTag /\ ScanEnd(FrameRegion(input), 0) = "truncated")
    => status = "Err"

\* C14: when the frame scan meets a well-formed frame whose identifier is
\* none of TIT2, TPE1, TALB, TPE2, TSSE, APIC, parse_tag returns an error
\* value to its caller and no tag.
C14_UnknownFrameReported ==
    (DecodedPlainTag /\ ScanEnd(FrameRegion(input), 0) = "unknown")
    => status = "Err" /\ tag = NoTag

\* C15: for a buffer of at least three bytes that does not start with
\* 0x49 0x44 0x33, parse_tag returns an error value and no tag, whatever the
\* rest of the buffer holds.
C15_NotAnId3Tag ==
    (/\ ncalls = 0
     /\ Len(input) >= 3
     /\ SubSeq(input, 1, 3) # <<73, 68, 51>>)
    => status = "Err" /\ tag = NoTag

\* parse_tag has refused a buffer that differs from a decodable tag in its
\* first byte only
C15_Witness ==
    /\ ncalls = 0
    /\ status = "Err"
    /\ Len(input) > 10
    /\ At(input, 0) # 73
    /\ parse_tag(<<73>> \o Tail(input)).status = "Ok"

\* the footer's identifier 0x33 0x44 0x49 stands at offset i of the bytes
MarkerAt(bytes, i) ==
    /\ i >= 0
    /\ i + 3 <= Len(bytes)
    /\ SubSeq(bytes, i + 1, i + 3) = <<51, 68, 73>>

\* C16: the tag bytes extract_tag returns are the first T bytes of the
\* file and the remaining bytes are the bytes from offset T to the end, so
\* the two parts joined give the file back.
C16_LocatePartitions ==
    (located # None /\ located[1].status = "Ok") =>
        LET T == Len(located[1].val.tag_bytes)
        IN  /\ located[1].val.tag_bytes = SubSeq(file, 1, T)
            /\ located[1].val.remaining_bytes = SubSeq(file, T + 1, Len(file))
            /\ located[1].val.tag_bytes \o located[1].val.remaining_bytes
                   = file

\* C17: extract_tag does not read past the end of the file, and the tag it
\* returns is size + 10 bytes long, or 10 bytes longer exactly when the
\* footer's identifier stands at the tag boundary: at offset size + 10, or
\* in the three bytes before it.
C17_LocateLength ==
    located # None =>
        LET T == SizeFieldOf(file) + 10
            len == Len(located[1].val.tag_bytes)
            expected(marker) == IF marker THEN T + 10 ELSE T
        IN  /\ located[1].status = "Ok"
            /\ \/ len = expected(MarkerAt(file, T))
               \/ len = expected(MarkerAt(file, T - 3))

\* C18: a payload made of an encoding byte, a MIME without 0x00, 0x00, a
\* picture-type byte, a description without 0x00, 0x00 and image bytes is
\* split by extract_picture into exactly these five fields.
C18_PictureFieldsSplit ==
    \A f \in PictureFields :
        (/\ extracted # None
         /\ pic = None
         /\ payload = Some(AttachedPictureLayout(f)))
        => extracted[1] = Ok(f)

\* C19: when the payload ends before the loop of extract_picture has
\* reached its data stage, extract_picture returns an error.
C19_MalformedPictureField ==
    (extracted # None /\ scan.stage # "data") => extracted[1].status = "Err"

\* C20: Picture::into_bytes gives the attached-picture layout, and
\* extract_picture of these bytes gives the fields of the Picture back.
C20_PictureRoundTrip ==
    /\ (pic # None /\ payload # None)
       => payload[1] = AttachedPictureLayout(pic[1])
    /\ (pic # None /\ extracted # None) => extracted[1] = Ok(pic[1])

\* the locals of the loop, after pos iterations, are those the loop of
\* extract_picture has after the first pos bytes of the payload
ScanMatchesLoop ==
    payload # None => scan = ScanPicture(ScanStart, SubSeq(payload[1], 1, pos))

\* C21: a tag whose header flags have bit 0x40 set decodes successfully,
\* with the extended header that starts at offset 10 present and the frames
\* taken from the region after it; a tag with the bit clear that decodes
\* has no extended header and its frames are those of the region from
\* offset 10 to the footer or the end.
C21_ExtendedHeaderParsed ==
    /\ \A ext \in ExtendedHeaders :
          (ncalls = 0
           /\ input = ExtendedTagBytes(ext, TextFrameBytes(TIT2, Song)))
          => /\ status = "Ok"
             /\ tag.extended_header # None
             /\ tag.extended_header[1].size =
                    convert_safesynch_to_u32(ext[1], ext[2], ext[3], ext[4])
             /\ tag.frames = parse_frames(TextFrameBytes(TIT2, Song)).val
    /\ (DecodedPlainTag /\ status = "Ok")
       => /\ tag.extended_header = None
          /\ tag.frames = parse_frames(FrameRegion(input)).val

FlagBits == {1, 2, 4, 8, 16, 32, 64, 128}

\* C22: in a decoded extended header the CRC is present iff one flag bit
\* is set and the restrictions byte iff another, distinct, flag bit is set;
\* d_flag_length is the byte at offset 13 when the CRC is present and at
\* offset 8 otherwise, and the restrictions byte is the byte after it.
C22_ExtendedHeaderFlags ==
    (status = "Ok" /\ tag.extended_header # None /\ tag.header = <<>>) =>
        LET e == tag.extended_header[1]
            dpos == IF e.total_frame_crc # None THEN 13 ELSE 8
        IN  /\ \E crc_bit \in FlagBits : \E restrictions_bit \in FlagBits :
                  /\ crc_bit # restrictions_bit
                  /\ (e.total_frame_crc # None) = BitSet(e.flags, crc_bit)
                  /\ (e.restrictions # None)
                         = BitSet(e.flags, restrictions_bit)
            /\ e.d_flag_length = At(input, dpos)
            /\ e.restrictions # None
               => e.restrictions = Some(At(input, dpos + 1))

\* the place of a stage in the order encoding, mime, type, description, data
StageRank(stage) ==
    CASE stage = "encoding" -> 0
      [] stage = "mime" -> 1
      [] stage = "type" -> 2
      [] stage = "description" -> 3
      [] stage = "data" -> 4
      [] OTHER -> -1

\* one iteration of the loop, seen from outside: one more byte is read and
\* the stage stays or moves to the next one, as the stage and the byte say
StageStep ==
    LET byte == payload[1][pos + 1]
        from == scan.stage
        to == scan'.stage
    IN  /\ payload # None
        /\ payload' = payload
        /\ pos < Len(payload[1])
        /\ pos' = pos + 1
        /\ StageRank(to) \in {StageRank(from), StageRank(from) + 1}
        /\ from = "encoding" => to = "mime"
        /\ from \in {"mime", "description"} => ((to # from) <=> (byte = 0))
        /\ from = "type" => to = "description"
        /\ from = "data"
           => /\ to = "data"
              /\ scan'.data_bytes = Append(scan.data_bytes, byte)

\* C23: the stage of the picture scanner is always one of the five stage
\* names and extract_picture never returns its unknown-stage error; every
\* change of the scanner reads exactly one byte and keeps the stage or moves
\* it one place forward in the order encoding, mime, type, description,
\* data: out of encoding and type after one byte, out of mime and
\* description on a 0x00 byte and only then, never out of data, where every
\* byte, 0x00 included, is appended to the image data.
C23_StageOrder ==
    /\ [](/\ StageRank(scan.stage) >= 0
          /\ extracted # None => extracted[1].status # "Err")
    /\ [][(scan' # scan \/ pos' # pos) => StageStep]_vars

\* the scanner has gone through all five stages of a payload with MIME and
\* description and has appended a 0x00 byte to the image data
C23_Witness ==
    /\ payload # None
    /\ pos = Len(payload[1])
    /\ scan.stage = "data"
    /\ scan.mime_bytes # <<>>
    /\ scan.description_bytes # <<>>
    /\ \E i \in 1..Len(scan.data_bytes) : scan.data_bytes[i] = 0

\* the frames a scan of the region from offset idx passes before it comes
\* to rest, in the order of their offsets
RECURSIVE FramesBefore(_, _)
FramesBefore(region, idx) ==
    IF \/ idx >= Len(region)
       \/ Len(region) - idx < 11
       \/ SubSeq(region, idx + 1, idx + 4) = <<0, 0, 0, 0>>
    THEN <<>>
    ELSE
        LET end == idx + 10
                   + convert_safesynch_to_u32(region[idx + 5], region[idx + 6],
                                              region[idx + 7], region[idx + 8])
        IN  IF end > Len(region) THEN <<>>
            ELSE <<parse_frame(SubSeq(region, idx + 1, end)).val>>
                 \o FramesBefore(region, end)

\* C24: when the scan of the frame region comes to four 0x00 bytes at the
\* current offset, decoding succeeds and the frame list is exactly the
\* frames that lie before that offset, in the order of their offsets.
C24_SentinelStops ==
    (DecodedPlainTag /\ ScanEnd(FrameRegion(input), 0) = "sentinel")
    => /\ status = "Ok"
       /\ tag.frames = FramesBefore(FrameRegion(input), 0)

\* a region with one frame, the sentinel, and the bytes of a second frame
\* after it has been decoded to the first frame only
C24_Witness ==
    /\ DecodedPlainTag
    /\ ScanEnd(FrameRegion(input), 0) = "sentinel"
    /\ status = "Ok"
    /\ Len(tag.frames) = 1
    /\ ScanEnd(FrameRegion(input), 19) = "end"
    /\ Len(FramesBefore(FrameRegion(input), 19)) = 1

\* C25: the frame scan comes to an end on every region.  An iteration that
\* decodes a frame moves the offset by the frame's size field plus 10,
\* which is a move forward, and pushes the frame decoded from exactly the
\* bytes between the old and the new offset; nothing else changes offset
\* or frame list.  The scan returns its frames only at the end of the
\* region or at the sentinel; every other way out is the error exit of the
\* case the scan stopped in.
C25_ScanTerminates ==
    /\ <>(loop # "running")
    /\ [][(loop = "running" /\ loop' = "running")
          => /\ frame_idx' = frame_idx + 10
                   + convert_safesynch_to_u32(
                         frame_bytes[frame_idx + 5], frame_bytes[frame_idx + 6],
                         frame_bytes[frame_idx + 7], frame_bytes[frame_idx + 8])
             /\ frame_idx' > frame_idx
             /\ frame_idx' <= Len(frame_bytes)
             /\ frames_found' = Append(frames_found,
                     parse_frame(SubSeq(frame_bytes, frame_idx + 1,
                                        frame_idx')).val)]_vars
    /\ [][loop' # "running"
          => (frame_idx' = frame_idx /\ frames_found' = frames_found)]_vars
    /\ [](loop = "done" => ScanEnd(frame_bytes, 0) \in {"end", "sentinel"})
    /\ [](loop \in {"warned", "panic"}
          => ScanEnd(frame_bytes, 0) \in {"truncated", "overrun", "unknown",
                                          "undecodable"})

\* three frames have been decoded back to back and the scan has ended at
\* the end of the region
C25_Witness ==
    /\ loop = "done"
    /\ Len(frames_found) = MaxFrames
    /\ frame_idx = Len(frame_bytes)

\* the loop taken step by step gives what parse_frames gives
ScanMatchesParseFrames ==
    /\ loop \in {"done", "warned"}
       => parse_frames(frame_bytes) = Ok(frames_found)
    /\ loop = "panic" => parse_frames(frame_bytes) = Panic

\* C26: no setter call takes header.size below 0: whenever a setter finds a
\* frame to replace in a tag that parse_tag returned or an earlier setter
\* left, the serialized length of that frame, which the replace path
\* subtracts, is at most header.size.
C26_SizeNeverUnderflows ==
    LET idx == position(before.frames, lastCall.id)
    IN  /\ (lastCall.op \in TextOps /\ idx # 0)
           => ~U32SubOverflows(before.header.size,
                  Len(Id3v2TextFrame_into_bytes(before.frames[idx])))
        /\ (/\ lastCall.op = "set_cover_art"
            /\ idx # 0
            /\ before.frames[idx].kind = "Picture")
           => ~U32SubOverflows(before.header.size,
                  Picture_size(before.frames[idx].picture))

\* C27: when parse_tag has decoded the tag bytes extract_tag returned, it
\* reports a footer exactly when extract_tag made the span 10 bytes longer
\* than size + 10, and the footer it reports is decoded from the 10 bytes
\* extract_tag added, those at offsets size + 10 .. size + 19 of the file.
C27_FooterDetectionAgrees ==
    (located # None /\ located[1].status = "Ok" /\ status = "Ok") =>
        LET T == SizeFieldOf(file) + 10
            extended == Len(located[1].val.tag_bytes) = T + 10
        IN  /\ extended <=> tag.footer # None
            /\ tag.footer # None
               => /\ T + 10 <= Len(file)
                  /\ tag.footer
                        = Some(parse_header(SubSeq(file, T + 1, T + 10)).val)

\* C28: for the tag parse_tag returned and for every tag the setters make
\* of it, get_size is the length of the bytes into_bytes produces.
C28_GetSizeIsSerializedLength ==
    status = "Ok" => get_size(tag) = Len(into_bytes(tag))

\* the part of C28 that concerns tags made of Text frames only
GetSizeOfTextTags ==
    (status = "Ok" /\ \A i \in 1..Len(tag.frames) : tag.frames[i].kind = "Text")
    => get_size(tag) = Len(into_bytes(tag))

====
